---- MODULE Spec2Model ----
(***************************************************************************)
(* The M-Pesa payment transaction lifecycle of lms/views.py: the two       *)
(* initiating handlers (initiate_mpesa_payment, mpesa_stkpush), the push   *)
(* submission (initiate_stk_push), the webhook (mpesa_callback) and the    *)
(* settlement (Payment) it creates.                                        *)
(*                                                                         *)
(* Conventions.  Python's None is the string "None" for text fields and    *)
(* the empty sequence for phone numbers (both are falsy in the code's      *)
(* tests).  Phone numbers are sequences of one-character strings.  Money   *)
(* is counted in 1/Unit shillings.  A transaction's id is its index in     *)
(* txs.                                                                    *)
(***************************************************************************)
EXTENDS Integers, Sequences, FiniteSets, TLC

VARIABLES
    txs,        \* the MPesaTransaction table, in order of creation
    payments,   \* the Payment table, in order of creation
    last,       \* the request handled last and the response it was given
    ncb,        \* number of webhook deliveries so far
    workers     \* per server worker, the webhook request it is handling

vars == <<txs, payments, last, ncb, workers>>

\* ------------------------------------------------------------------ bounds
MaxTx == 2
MaxCallbacks == 2
Unit == 2
FeeRequired == 3
NumWorkers == 2
MaxRequired == 3
MaxPaid == 2
MaxPayments == 2
MaxAmount == 5
MaxCore == 3
MaxFill == 12

\* --------------------------------------------------------- program constants
CancelCode == 1032
TrunkMinLen == 10
BareMinLen == 9
IntlMinLen == 12

None == "None"
NoPhone == <<>>

CountryCode == <<"2", "5", "4">>

\* ------------------------------------------------------- _normalize_msisdn
StartsWith(s, p) == Len(s) >= Len(p) /\ SubSeq(s, 1, Len(p)) = p

Tail1(s) == SubSeq(s, 2, Len(s))

RemoveSpaces(s) == SelectSeq(s, LAMBDA c : c # " ")

RECURSIVE LStripZeros(_)
LStripZeros(s) ==
    IF s # <<>> /\ Head(s) = "0" THEN LStripZeros(Tail(s)) ELSE s

\* The normalisation putting 254 before everything that has no trunk 0, also
\* before what starts with 254 already.
NormalizeAlwaysPrefix(phone_number) ==
    IF phone_number = NoPhone THEN NoPhone
    ELSE LET m0 == RemoveSpaces(phone_number)
             m  == IF StartsWith(m0, <<"+">>) THEN Tail1(m0) ELSE m0
         IN  IF StartsWith(m, <<"0">>) /\ Len(m) >= TrunkMinLen
                 THEN CountryCode \o Tail1(m)
             ELSE CountryCode \o LStripZeros(m)

\* The normalisation without lines 944-945 (a leading "+" is kept).
NormalizeKeepPlus(phone_number) ==
    IF phone_number = NoPhone THEN NoPhone
    ELSE LET m == RemoveSpaces(phone_number)
         IN  IF StartsWith(m, <<"0">>) /\ Len(m) >= TrunkMinLen
                 THEN CountryCode \o Tail1(m)
             ELSE IF StartsWith(m, <<"7">>) /\ Len(m) >= BareMinLen
                 THEN CountryCode \o m
             ELSE IF StartsWith(m, CountryCode) /\ Len(m) >= IntlMinLen
                 THEN m
             ELSE IF ~StartsWith(m, CountryCode)
                 THEN CountryCode \o LStripZeros(m)
             ELSE m

_normalize_msisdn(phone_number) ==
    IF phone_number = NoPhone THEN NoPhone
    ELSE LET m0 == RemoveSpaces(phone_number)
             m  == IF StartsWith(m0, <<"+">>) THEN Tail1(m0) ELSE m0
         IN  IF StartsWith(m, <<"0">>) /\ Len(m) >= TrunkMinLen
                 THEN CountryCode \o Tail1(m)
             ELSE IF StartsWith(m, <<"7">>) /\ Len(m) >= BareMinLen
                 THEN CountryCode \o m
             ELSE IF StartsWith(m, CountryCode) /\ Len(m) >= IntlMinLen
                 THEN m
             ELSE IF ~StartsWith(m, CountryCode)
                 THEN CountryCode \o LStripZeros(m)
             ELSE m

\* ------------------------------------------------------------ request inputs
Phone0712 == <<"0", "7", "1", "2", "3", "4", "5", "6", "7", "8">>
Phone254 == <<"2", "5", "4", "7", "1", "2", "3", "4", "5", "6", "7", "8">>

PhoneInputs == {NoPhone, Phone0712}

\* amount_raw: missing, text that is no number, or a number of 1/Unit shillings
\* (zero, less than one shilling, one shilling)
AmountInputs ==
    {[kind |-> "missing", n |-> 0], [kind |-> "invalid", n |-> 0]}
        \cup {[kind |-> "number", n |-> k] : k \in {0, Unit - 1, Unit}}

\* What the gateway does with one push: the token request fails (it raises, or
\* its answer holds no access_token), the POST fails in transport or is
\* answered with a body that is no JSON (requests.post or resp.json() raises),
\* or the gateway answers with ResponseCode "0" or "1".
GatewayOutcomes == {"token_error", "transport_error", "accepted", "rejected"}

Handlers == {"initiate_mpesa_payment", "mpesa_stkpush"}

\* ------------------------------------------------------------------ records
\* A ResultCode of the webhook: absent, an integer, or text that is no integer.
RcMissing == [present |-> FALSE, isInt |-> FALSE, n |-> 0]
RcText == [present |-> TRUE, isInt |-> FALSE, n |-> 0]
RcInt(k) == [present |-> TRUE, isInt |-> TRUE, n |-> k]

\* A webhook body.  shape says how far the envelope is well formed:
\*   "invalid_json"  json.loads raises
\*   "not_object"    JSON that is no object (a list, a number, null)
\*   "bad_envelope"  Body or stkCallback is no object
\*   "bad_metadata"  CallbackMetadata is no object, or an Item is no object
\*   "ok"            the documented Daraja shape
\* amount 0, receipt/date None and phone <<>> stand for an absent metadata item.
MkBody(shape, mid, cid, rc, desc, amount, receipt, phone, date) ==
    [shape |-> shape, mid |-> mid, cid |-> cid, rc |-> rc, desc |-> desc,
     amount |-> amount, receipt |-> receipt, phone |-> phone, date |-> date]

NoBody == MkBody("none", None, None, RcMissing, None, 0, None, NoPhone, None)

\* MPesaTransaction.callback_data: nothing, the push request/response pair
\* stored by initiate_stk_push, or the webhook body stored by mpesa_callback.
NoData == [kind |-> "none", amount_int |-> 0, msisdn |-> NoPhone, code |-> None, body |-> NoBody]

StkData(amount_int, msisdn, code) ==
    [kind |-> "stkpush", amount_int |-> amount_int, msisdn |-> msisdn, code |-> code, body |-> NoBody]

CallbackData(body) ==
    [kind |-> "callback", amount_int |-> 0, msisdn |-> NoPhone, code |-> None, body |-> body]

\* MPesaTransaction.objects.create(student, amount, phone_number, status="Pending").
\* The fields create() is not given are unset until a handler assigns them.
NewTransaction(amount, msisdn) ==
    [student |-> "s1", amount |-> amount, phone_number |-> msisdn, status |-> "Pending",
     merchant_request_id |-> None, checkout_request_id |-> None,
     result_code |-> None, result_description |-> None, callback_data |-> NoData,
     mpesa_receipt_number |-> None, transaction_date |-> None]

\* The identifiers the gateway assigns to the push of transaction tid.
Cid(tid) == "C" \o ToString(tid)
Mid(tid) == "M" \o ToString(tid)

\* ------------------------------------------------------- initiate_stk_push
\* x or y on values whose falsy member is None
OrElse(x, y) == IF x # None THEN x ELSE y

\* The gateway's synchronous answer to the push of transaction tid.  A
\* rejection carries identifiers too, so that what the handlers do with them
\* shows.
StkResponse(outcome, tid) ==
    IF outcome = "accepted"
        THEN [ResponseCode |-> "0", ResponseDescription |-> "Success. Request accepted for processing",
              MerchantRequestID |-> Mid(tid), CheckoutRequestID |-> Cid(tid)]
        ELSE [ResponseCode |-> "1", ResponseDescription |-> "Rejected",
              MerchantRequestID |-> Mid(tid), CheckoutRequestID |-> Cid(tid)]

NoResponse ==
    [ResponseCode |-> None, ResponseDescription |-> None,
     MerchantRequestID |-> None, CheckoutRequestID |-> None]

\* The conversion rounding to the nearest integer, halves upwards.
AmountRounded(amount) == (2 * amount + Unit) \div (2 * Unit)

\* int(Decimal(amount)): truncation toward zero of a non-negative amount
AmountInt(amount) == amount \div Unit

\* The result of initiate_stk_push on transaction t (id tid): either it raised
\* (error is the exception's text, t is as it was) or it returned data and
\* saved result_code, result_description and callback_data on t.  The
\* settings (shortcode, passkey, callback URL, credentials' presence) are
\* taken as configured; a token request that fails is outcome "token_error".
initiate_stk_push(phone_number, amount, t, tid, outcome) ==
    LET msisdn == _normalize_msisdn(phone_number)
        amount_int == AmountInt(amount)
        data == StkResponse(outcome, tid)
        Raise(e) == [raised |-> TRUE, error |-> e, data |-> NoResponse, tx |-> t]
    IN  IF msisdn = NoPhone THEN Raise("Invalid phone number")
        ELSE IF amount_int < 1 THEN Raise("Amount must be at least 1")
        ELSE IF outcome = "token_error" THEN Raise("Failed to obtain M-Pesa access token")
        ELSE IF outcome = "transport_error" THEN Raise("ConnectionError")
        ELSE [raised |-> FALSE, error |-> None, data |-> data,
              tx |-> [t EXCEPT
                  !.result_code = OrElse(data.ResponseCode, t.result_code),
                  !.result_description = OrElse(data.ResponseDescription, t.result_description),
                  !.callback_data = StkData(amount_int, msisdn, data.ResponseCode)]]

\* --------------------------------- initiate_mpesa_payment and mpesa_stkpush
\* The request handled last: the handler, the transaction it created or
\* matched (0: none), of a webhook body its shape, its ResultCode, whether its
\* CheckoutRequestID is one stored on a transaction (corr) and whether it is
\* the payload already stored on the matched transaction (a re-delivery), the
\* matched transaction's status when the handler read it, how the handling
\* ended, and the response.
\*   corr: "no_id" (the body has no CheckoutRequestID) | "unknown_id" | "stored_id"
\*   resp: "ok" | "fail" (400 or an error redirect) | "server_error" (500)
\*         | "ack" ({"ResultCode": 0, "ResultDesc": "Accepted"})
Correlation(T, body) ==
    IF body.cid = None THEN "no_id"
    ELSE IF \E i \in 1 .. Len(T) : T[i].checkout_request_id = body.cid THEN "stored_id"
    ELSE "unknown_id"

MkLast(op, tid, body, pre, dup, outcome, resp) ==
    [op |-> op, tid |-> tid, shape |-> body.shape, corr |-> Correlation(txs, body),
     rc |-> body.rc, pre |-> pre, dup |-> dup, outcome |-> outcome, resp |-> resp]

\* The validation of phone_number and amount_raw before anything is created:
\* "pass", or the response given.
Validate(h, phone_number, amount_raw) ==
    IF phone_number = NoPhone \/ amount_raw.kind = "missing" THEN "fail"
    ELSE IF amount_raw.kind = "invalid"
        \* Decimal() raises InvalidOperation: no ValueError, so uncaught by the
        \* form handler; mpesa_stkpush catches Exception
        THEN (IF h = "initiate_mpesa_payment" THEN "server_error" ELSE "fail")
    ELSE IF amount_raw.n <= 0 THEN "fail"
    ELSE IF _normalize_msisdn(phone_number) = NoPhone THEN "fail"
    ELSE "pass"

\* The handlers taking every answer of the gateway as an acceptance.
AfterPushAnyCodeAccepted(h, r) ==
    IF r.raised
        THEN (IF h = "initiate_mpesa_payment"
                THEN [r.tx EXCEPT !.status = "Failed", !.result_description = r.error]
                ELSE r.tx)
    ELSE [r.tx EXCEPT !.merchant_request_id = r.data.MerchantRequestID,
                      !.checkout_request_id = r.data.CheckoutRequestID]

\* The transaction after the handler's own handling of the push result r.
AfterPush(h, r) ==
    IF r.raised
        THEN (IF h = "initiate_mpesa_payment"
                THEN [r.tx EXCEPT !.status = "Failed", !.result_description = r.error]
                ELSE r.tx)
    ELSE IF r.data.ResponseCode = "0"
        THEN [r.tx EXCEPT !.merchant_request_id = r.data.MerchantRequestID,
                          !.checkout_request_id = r.data.CheckoutRequestID]
    ELSE [r.tx EXCEPT !.status = "Failed",
                      !.result_code = r.data.ResponseCode,
                      !.result_description = r.data.ResponseDescription]

PushResponse(h, r) ==
    IF r.raised
        THEN (IF h = "initiate_mpesa_payment" THEN "fail" ELSE "server_error")
    ELSE IF r.data.ResponseCode = "0" THEN "ok"
    ELSE "fail"

\* How the push ended: "refused" when initiate_stk_push raised before line
\* 1021 (no request was sent), else what the gateway did.
PushOutcome(r) ==
    IF r.raised
        THEN (IF r.error = "Failed to obtain M-Pesa access token" THEN "token_error"
              ELSE IF r.error = "ConnectionError" THEN "transport_error"
              ELSE "refused")
    ELSE IF r.data.ResponseCode = "0" THEN "accepted"
    ELSE "rejected"

\* What the gateway may do with the request: nothing when the handler gives
\* up before line 1021 (validation, or an amount below one shilling).
OutcomesFor(h, phone_number, amount_raw) ==
    IF Validate(h, phone_number, amount_raw) = "pass" /\ AmountInt(amount_raw.n) >= 1
        THEN GatewayOutcomes
        ELSE {"not_called"}

Initiate(h, phone_number, amount_raw, outcome) ==
    /\ Len(txs) < MaxTx
    /\ LET v == Validate(h, phone_number, amount_raw)
           tid == Len(txs) + 1
           msisdn == _normalize_msisdn(phone_number)
           t0 == NewTransaction(amount_raw.n, msisdn)
           r == initiate_stk_push(msisdn, amount_raw.n, t0, tid, outcome)
       IN  IF v # "pass"
               THEN /\ last' = MkLast(h, 0, NoBody, None, FALSE, "invalid", v)
                    /\ UNCHANGED txs
               ELSE /\ txs' = Append(txs, AfterPush(h, r))
                    /\ last' = MkLast(h, tid, NoBody, None, FALSE, PushOutcome(r), PushResponse(h, r))
    /\ UNCHANGED <<payments, ncb, workers>>

\* ------------------------------------------------------------ webhook inputs

\* The (ResultCode, ResultDesc, metadata) parts of the webhooks delivered.
Results ==
    { [rc |-> RcInt(0), desc |-> "processed", amount |-> Unit, receipt |-> "NLJ7RT61SV",
       phone |-> Phone254, date |-> "20231209203045"],
      [rc |-> RcInt(0), desc |-> "processed", amount |-> 0, receipt |-> None,
       phone |-> NoPhone, date |-> None],
      [rc |-> RcInt(1), desc |-> "insufficient funds", amount |-> 0, receipt |-> None,
       phone |-> NoPhone, date |-> None],
      [rc |-> RcInt(CancelCode), desc |-> "cancelled by user", amount |-> 0, receipt |-> None,
       phone |-> NoPhone, date |-> None],
      [rc |-> RcMissing, desc |-> None, amount |-> 0, receipt |-> None,
       phone |-> NoPhone, date |-> None],
      [rc |-> RcText, desc |-> "text code", amount |-> 0, receipt |-> None,
       phone |-> NoPhone, date |-> None] }

\* Cid(MaxTx + 1) is an identifier no push was ever given.
CheckoutIdsIn == {None} \cup {Cid(i) : i \in 1 .. MaxTx + 1}
MerchantIdsIn == {Mid(1)}

Bodies ==
    { MkBody("ok", m, c, r.rc, r.desc, r.amount, r.receipt, r.phone, r.date) :
        m \in MerchantIdsIn, c \in CheckoutIdsIn, r \in Results }
    \cup { MkBody(s, None, None, RcMissing, None, 0, None, NoPhone, None) :
        s \in {"invalid_json", "not_object", "bad_envelope"} }
    \cup { MkBody("bad_metadata", None, c, RcInt(0), "processed", 0, None, NoPhone, None) :
        c \in CheckoutIdsIn \ {None} }

\* ---------------------------------------------------------- mpesa_callback
\* Lines 1255-1282: parsing the envelope and flattening the metadata.
\*   "unparsed": json.loads raised, the handler acknowledges at once
\*   "raised":   a .get on something that is no dict raised (uncaught: HTTP 500)
\*   "parsed":   the fields were extracted
\* ParseStage without the try/except around json.loads.
ParseStageNoCatch(body) ==
    IF body.shape = "ok" THEN "parsed" ELSE "raised"

ParseStage(body) ==
    IF body.shape = "invalid_json" THEN "unparsed"
    ELSE IF body.shape = "ok" THEN "parsed"
    ELSE "raised"

\* queryset.first(): of the ids of the matching rows the lowest, 0 when there
\* is none
First(ids) ==
    IF ids = {} THEN 0 ELSE CHOOSE i \in ids : \A j \in ids : i <= j

\* Lookup falling back to the transaction created last when none matches.
LookupOrLatest(T, body) ==
    LET byCheckout == {i \in 1 .. Len(T) : T[i].checkout_request_id = body.cid}
        found == IF body.cid # None THEN First(byCheckout) ELSE 0
    IN  IF found = 0 THEN Len(T) ELSE found

\* Lookup whose second query asks for the MerchantRequestID alone.
LookupByMerchantToo(T, body) ==
    LET byCheckout == {i \in 1 .. Len(T) : T[i].checkout_request_id = body.cid}
        byMerchant == {i \in 1 .. Len(T) : T[i].merchant_request_id = body.mid}
        primary == IF body.cid # None THEN First(byCheckout) ELSE 0
    IN  IF primary = 0 /\ body.mid # None
            THEN First(byMerchant)
            ELSE primary

\* Lines 1285-1292: the transaction the webhook is matched to (0: none).  The
\* gateway never assigns one CheckoutRequestID twice, so at most one row
\* matches and the order first() takes them in does not matter.
Lookup(T, body) ==
    LET byCheckout == {i \in 1 .. Len(T) : T[i].checkout_request_id = body.cid}
        byPair == {i \in 1 .. Len(T) : /\ T[i].merchant_request_id = body.mid
                                       /\ T[i].checkout_request_id = body.cid}
        primary == IF body.cid # None THEN First(byCheckout) ELSE 0
    IN  IF primary = 0 /\ body.mid # None /\ body.cid # None
            THEN First(byPair)
            ELSE primary

\* str(result_code) if result_code is not None else None
ResultCodeStr(rc) ==
    IF ~rc.present THEN None
    ELSE IF rc.isInt THEN ToString(rc.n)
    ELSE "abc"

\* Lines 1300-1302: the fields set on the loaded object before any test.
Loaded(t, body) ==
    [t EXCEPT !.callback_data = CallbackData(body),
              !.result_code = ResultCodeStr(body.rc),
              !.result_description = body.desc]

\* The handler without its test for an already Completed transaction.
NeverCompleted(obj) == FALSE

\* Line 1305
AlreadyCompleted(obj) == obj.status = "Completed"

\* The test taking a code int() rejects for 0.
IsSuccessUnlessCode(rc) == ~rc.present \/ ~rc.isInt \/ rc.n = 0

\* Lines 1310-1315: int(result_code) = 0, with a failed conversion as None
IsSuccess(rc) == rc.present /\ rc.isInt /\ rc.n = 0

\* The failure branch without the cancellation code.
AlwaysFailed(rc) == "Failed"

\* Line 1348
FailureStatus(rc) ==
    IF rc.present /\ rc.isInt /\ rc.n = CancelCode THEN "Cancelled" ELSE "Failed"

IsDigit(c) == c \in {"0", "1", "2", "3", "4", "5", "6", "7", "8", "9"}

Digits == "0123456789"

DigitVal(c) == CHOOSE d \in 0 .. 9 : SubSeq(Digits, d + 1, d + 1) = c

\* the number a string of digits writes
RECURSIVE Num(_)
Num(s) ==
    IF Len(s) = 0 THEN 0
    ELSE 10 * Num(SubSeq(s, 1, Len(s) - 1)) + DigitVal(SubSeq(s, Len(s), Len(s)))

Pad2(n) ==
    SubSeq(Digits, (n \div 10) + 1, (n \div 10) + 1) \o SubSeq(Digits, (n % 10) + 1, (n % 10) + 1)

AllDigits(s) == Len(s) > 0 /\ \A i \in 1 .. Len(s) : IsDigit(SubSeq(s, i, i))

RECURSIVE StripZeros(_)
StripZeros(s) ==
    IF Len(s) > 1 /\ SubSeq(s, 1, 1) = "0" THEN StripZeros(SubSeq(s, 2, Len(s))) ELSE s

\* Line 1325, str(int(tx_date_raw)): the decimal digits without leading
\* zeros, None where int() raises ValueError.
StrInt(raw) == IF AllDigits(raw) THEN StripZeros(raw) ELSE None

\* The directives of "%Y%m%d%H%M%S" after the year. strptime matches each with
\* a pattern that takes two digits if they are in range and one digit
\* otherwise: %m 1[0-2]|0[1-9]|[1-9], %d 3[01]|[12]\d|0[1-9]|[1-9],
\* %H 2[0-3]|[0-1]\d|\d, %M [0-5]\d|\d, %S 6[0-1]|[0-5]\d|\d.
Fields == <<"m", "d", "H", "M", "S">>

FieldMin(f) == IF f \in {"m", "d"} THEN 1 ELSE 0

FieldMax(f) ==
    CASE f = "m" -> 12
      [] f = "d" -> 31
      [] f = "H" -> 23
      [] f = "M" -> 59
      [] f = "S" -> 61

FieldMatches(f, s) ==
    Num(s) >= FieldMin(f) /\ Num(s) <= (IF Len(s) = 1 THEN 9 ELSE FieldMax(f))

\* the number of digits each of the five directives takes
Widths == [1 .. 5 -> {1, 2}]

\* the characters consumed by the year and the first k directives
RECURSIVE Consumed(_, _)
Consumed(w, k) == IF k = 0 THEN 4 ELSE Consumed(w, k - 1) + w[k]

FieldText(s, w, k) == SubSeq(s, Consumed(w, k - 1) + 1, Consumed(w, k))

Fits(s, w) ==
    /\ Consumed(w, 5) <= Len(s)
    /\ \A k \in 1 .. 5 : FieldMatches(Fields[k], FieldText(s, w, k))

\* the order in which the pattern's alternatives are tried: two digits before
\* one, the leftmost directive first
Preferred(w, v) ==
    w = v \/ \E k \in 1 .. 5 : w[k] > v[k] /\ \A j \in 1 .. k - 1 : w[j] = v[j]

DaysIn(year, month) ==
    IF month \in {4, 6, 9, 11} THEN 30
    ELSE IF month # 2 THEN 31
    ELSE IF year % 4 = 0 /\ (year % 100 # 0 \/ year % 400 = 0) THEN 29
    ELSE 28

\* datetime.datetime.strptime(s, "%Y%m%d%H%M%S") of a string of digits: the
\* first match of the pattern, which has to end where the string ends, then
\* the datetime constructor's range checks. The datetime is written
\* YYYYMMDDHHMMSS; None where strptime raises ValueError.
strptime(s) ==
    LET fits == {w \in Widths : Fits(s, w)}
    IN  IF fits = {} THEN None
        ELSE LET w == CHOOSE x \in fits : \A v \in fits : Preferred(x, v)
                 month == Num(FieldText(s, w, 1))
                 day == Num(FieldText(s, w, 2))
                 hour == Num(FieldText(s, w, 3))
                 minute == Num(FieldText(s, w, 4))
                 second == Num(FieldText(s, w, 5))
             IN  IF \/ Consumed(w, 5) # Len(s)
                    \/ day > DaysIn(Num(SubSeq(s, 1, 4)), month)
                    \/ second > 59
                 THEN None
                 ELSE SubSeq(s, 1, 4) \o Pad2(month) \o Pad2(day) \o Pad2(hour)
                          \o Pad2(minute) \o Pad2(second)

\* Line 1325: strptime(str(int(tx_date_raw)), "%Y%m%d%H%M%S"), None where
\* either conversion raises.
Converted(raw) == IF StrInt(raw) = None THEN None ELSE strptime(StrInt(raw))

\* The TransactionDate values the webhooks carry, and the conversion of each,
\* computed once.
TransactionDates == {"20231209203045", "20231309203045", "2023-12-09", "202312092030"}

ConvertedDates == [raw \in TransactionDates |-> Converted(raw)]

\* Lines 1323-1329: the datetime parsed from TransactionDate, None where the
\* value is absent or the conversion raises.
ParseTransactionDate(raw) ==
    IF raw = None THEN None
    ELSE IF raw \in TransactionDates THEN ConvertedDates[raw]
    ELSE Converted(raw)

\* Lines 1316-1329: the object after the success branch's assignments.
Settled(obj, body) ==
    LET tx_dt == ParseTransactionDate(body.date)
    IN  [obj EXCEPT
            !.status = "Completed",
            !.mpesa_receipt_number = IF body.receipt # None THEN body.receipt ELSE @,
            !.phone_number = IF body.phone # NoPhone THEN body.phone ELSE @,
            !.transaction_date = IF tx_dt # None THEN tx_dt ELSE @]

\* The failure branch taking receipt, phone and date from the metadata too.
DeclinedWithMetadata(obj, body) ==
    [Settled(obj, body) EXCEPT !.status = FailureStatus(body.rc)]

\* Lines 1346-1349: the object after the failure branch's assignment.
Declined(obj, body) == [obj EXCEPT !.status = FailureStatus(body.rc)]

\* save(update_fields=["callback_data", "result_code", "result_description"])
SaveAudit(row, obj) ==
    [row EXCEPT !.callback_data = obj.callback_data,
                !.result_code = obj.result_code,
                !.result_description = obj.result_description]

RECURSIVE SumPaid(_, _)
SumPaid(P, student) ==
    IF P = <<>> THEN 0
    ELSE (IF Head(P).student = student THEN Head(P).amount_paid ELSE 0)
         + SumPaid(Tail(P), student)

Max(a, b) == IF a >= b THEN a ELSE b

\* The stamped balance without the clamp at zero.
BalanceAfterUnclamped(total_required, P, student, amount_paid) ==
    total_required - (SumPaid(P, student) + amount_paid)

\* Lines 1363-1371, for a class whose FeeStructure asks total_required (0 also
\* stands for a class with no FeeStructure)
BalanceAfterPayment(total_required, P, student, amount_paid) ==
    LET total_paid == SumPaid(P, student) + amount_paid
        balance == total_required - total_paid
    IN  Max(balance, 0)

\* Lines 1355-1371
calculate_balance_after_payment(P, student, amount_paid) ==
    BalanceAfterPayment(FeeRequired, P, student, amount_paid)

\* Lines 278-298: what the fee page of the student shows.
student_fee_detail(total_required, P, student) ==
    LET total_paid == SumPaid(P, student)
    IN  [total_required |-> total_required, total_paid |-> total_paid,
         balance |-> total_required - total_paid]

\* Lines 303-331: the Payment table after staff recorded a payment by hand.
add_payment(total_required, P, student, amount_paid) ==
    LET current_balance == total_required - SumPaid(P, student)
    IN  Append(P, [student |-> student, amount_paid |-> amount_paid, date |-> "today",
                   balance_after |-> current_balance - amount_paid,
                   payment_method |-> "Cash", mpesa_transaction |-> 0])

\* transaction_date.date() (the year, month and day of the timestamp), else
\* datetime.date.today()
PaymentDate(transaction_date) ==
    IF transaction_date # None THEN SubSeq(transaction_date, 1, 8) ELSE "today"

\* Line 1334: Payment.objects.filter(mpesa_transaction=...).exists()
PaymentExists(P, tid) == \E i \in 1 .. Len(P) : P[i].mpesa_transaction = tid

\* Lines 1335-1342
NewPayment(P, obj, tid) ==
    [student |-> obj.student, amount_paid |-> obj.amount,
     date |-> PaymentDate(obj.transaction_date),
     balance_after |-> calculate_balance_after_payment(P, obj.student, obj.amount),
     payment_method |-> "M-Pesa", mpesa_transaction |-> tid]

\* Lines 1334-1342: the Payment table after the guarded creation.
WithPayment(P, obj, tid) ==
    IF PaymentExists(P, tid) THEN P ELSE Append(P, NewPayment(P, obj, tid))

\* The handler with neither the early return for a Completed transaction nor
\* the existence test before the Payment is created.
CallbackResultNoIdempotence(T, P, body) ==
    LET stage == ParseStage(body)
        tid == IF stage = "parsed" THEN Lookup(T, body) ELSE 0
        Untouched(resp) == [txs |-> T, payments |-> P, tid |-> 0, pre |-> None, resp |-> resp]
    IN  IF stage = "unparsed" THEN Untouched("ack")
        ELSE IF stage = "raised" THEN Untouched("server_error")
        ELSE IF tid = 0 THEN Untouched("ack")
        ELSE LET obj == Loaded(T[tid], body)
                 done == Settled(obj, body)
             IN  IF IsSuccess(body.rc)
                     THEN [txs |-> [T EXCEPT ![tid] = done],
                           payments |-> Append(P, NewPayment(P, done, tid)),
                           tid |-> tid, pre |-> obj.status, resp |-> "ack"]
                 ELSE [txs |-> [T EXCEPT ![tid] = Declined(obj, body)],
                       payments |-> P, tid |-> tid, pre |-> obj.status, resp |-> "ack"]

\* The whole handler, run without interleaving, on tables T and P.
CallbackResult(T, P, body) ==
    LET stage == ParseStage(body)
        tid == IF stage = "parsed" THEN Lookup(T, body) ELSE 0
        Untouched(resp) == [txs |-> T, payments |-> P, tid |-> 0, pre |-> None, resp |-> resp]
    IN  IF stage = "unparsed" THEN Untouched("ack")
        ELSE IF stage = "raised" THEN Untouched("server_error")
        ELSE IF tid = 0 THEN Untouched("ack")
        ELSE LET obj == Loaded(T[tid], body)
                 done == Settled(obj, body)
             IN  IF AlreadyCompleted(obj)
                     THEN [txs |-> [T EXCEPT ![tid] = SaveAudit(@, obj)], payments |-> P,
                           tid |-> tid, pre |-> obj.status, resp |-> "ack"]
                 ELSE IF IsSuccess(body.rc)
                     THEN [txs |-> [T EXCEPT ![tid] = done],
                           payments |-> WithPayment(P, done, tid),
                           tid |-> tid, pre |-> obj.status, resp |-> "ack"]
                 ELSE [txs |-> [T EXCEPT ![tid] = Declined(obj, body)],
                       payments |-> P, tid |-> tid, pre |-> obj.status, resp |-> "ack"]

Callback(body) ==
    /\ ncb < MaxCallbacks
    /\ LET r == CallbackResult(txs, payments, body)
       IN  /\ txs' = r.txs
           /\ payments' = r.payments
           /\ last' = MkLast("mpesa_callback", r.tid, body, r.pre,
                              r.tid # 0 /\ txs[r.tid].callback_data = CallbackData(body),
                              "handled", r.resp)
    /\ ncb' = ncb + 1
    /\ UNCHANGED workers

\* The handler stops (the process dies, or the database fails on the INSERT)
\* after line 1331 has saved the Completed transaction and before a Payment
\* is created.  Each statement commits on its own: the save is not undone.
CallbackCrash(body) ==
    /\ ncb < MaxCallbacks
    /\ ParseStage(body) = "parsed"
    /\ LET tid == Lookup(txs, body)
       IN  /\ tid # 0
           /\ ~AlreadyCompleted(txs[tid])
           /\ IsSuccess(body.rc)
           /\ ~PaymentExists(payments, tid)
           /\ txs' = [txs EXCEPT ![tid] = Settled(Loaded(@, body), body)]
           /\ last' = MkLast("mpesa_callback", tid, body, txs[tid].status,
                              txs[tid].callback_data = CallbackData(body),
                              "crashed", "server_error")
    /\ ncb' = ncb + 1
    /\ UNCHANGED <<payments, workers>>

\* ------------------------------------- mpesa_callback, statement by statement
\* Requests are served by several workers at once and the handler takes no
\* lock and opens no transaction: each query is a step of its own, and a
\* worker keeps the object it loaded (obj) while the others run.
\*   pc: "idle" | "loaded" (after line 1302) | "saved" (after line 1331)
\*       | "creating" (line 1334 found no Payment)
IdleWorker == [pc |-> "idle", body |-> NoBody, tid |-> 0, pre |-> None, dup |-> FALSE,
               obj |-> NewTransaction(0, NoPhone)]

Answer(w, resp) ==
    /\ last' = MkLast("mpesa_callback", workers[w].tid, workers[w].body, workers[w].pre,
                       workers[w].dup, "handled", resp)
    /\ workers' = [workers EXCEPT ![w] = IdleWorker]

\* Lines 1255-1302: parse, look the transaction up, set the audit fields on
\* the loaded object.
CbLoad(w, body) ==
    /\ workers[w].pc = "idle"
    /\ ncb < MaxCallbacks
    /\ ncb' = ncb + 1
    /\ LET stage == ParseStage(body)
           tid == IF stage = "parsed" THEN Lookup(txs, body) ELSE 0
       IN  IF tid = 0
               THEN /\ last' = MkLast("mpesa_callback", 0, body, None, FALSE, "handled",
                                      IF stage = "raised" THEN "server_error" ELSE "ack")
                    /\ UNCHANGED workers
               ELSE /\ workers' = [workers EXCEPT ![w] =
                          [pc |-> "loaded", body |-> body, tid |-> tid,
                           pre |-> txs[tid].status,
                           dup |-> txs[tid].callback_data = CallbackData(body),
                           obj |-> Loaded(txs[tid], body)]]
                    /\ UNCHANGED last
    /\ UNCHANGED <<txs, payments>>

\* Lines 1305-1331 and 1346-1349: the branch taken on the loaded object and its
\* save.  save() without update_fields writes every field of the object.
CbSave(w) ==
    /\ workers[w].pc = "loaded"
    /\ LET me == workers[w]
           done == Settled(me.obj, me.body)
       IN  IF AlreadyCompleted(me.obj)
               THEN /\ txs' = [txs EXCEPT ![me.tid] = SaveAudit(@, me.obj)]
                    /\ Answer(w, "ack")
           ELSE IF IsSuccess(me.body.rc)
               THEN /\ txs' = [txs EXCEPT ![me.tid] = done]
                    /\ workers' = [workers EXCEPT ![w].pc = "saved", ![w].obj = done]
                    /\ UNCHANGED last
           ELSE /\ txs' = [txs EXCEPT ![me.tid] = Declined(me.obj, me.body)]
                /\ Answer(w, "ack")
    /\ UNCHANGED <<payments, ncb>>

\* Line 1334: the existence test.
CbCheck(w) ==
    /\ workers[w].pc = "saved"
    /\ IF PaymentExists(payments, workers[w].tid)
           THEN Answer(w, "ack")
           ELSE /\ workers' = [workers EXCEPT ![w].pc = "creating"]
                /\ UNCHANGED last
    /\ UNCHANGED <<txs, payments, ncb>>

\* Lines 1335-1342: the INSERT.
CbCreate(w) ==
    /\ workers[w].pc = "creating"
    /\ payments' = Append(payments, NewPayment(payments, workers[w].obj, workers[w].tid))
    /\ Answer(w, "ack")
    /\ UNCHANGED <<txs, ncb>>

\* ------------------------------------------------------------ specification
NoRequest ==
    [op |-> "none", tid |-> 0, shape |-> "none", corr |-> "no_id", rc |-> RcMissing,
     pre |-> None, dup |-> FALSE, outcome |-> "none", resp |-> "none"]

Init ==
    /\ txs = <<>>
    /\ payments = <<>>
    /\ last = NoRequest
    /\ ncb = 0
    /\ workers = [w \in 1 .. NumWorkers |-> IdleWorker]

Next ==
    \/ \E h \in Handlers, p \in PhoneInputs, a \in AmountInputs :
          \E o \in OutcomesFor(h, p, a) : Initiate(h, p, a, o)
    \/ \E b \in Bodies : Callback(b)

Spec == Init /\ [][Next]_vars

\* Sequential handling in which a webhook request may die half way.
NextCrash ==
    \/ Next
    \/ \E b \in Bodies : CallbackCrash(b)

SpecCrash == Init /\ [][NextCrash]_vars

\* Webhook requests handled by NumWorkers workers at once.
NextConc ==
    \/ \E h \in Handlers, p \in PhoneInputs, a \in AmountInputs :
          \E o \in OutcomesFor(h, p, a) : Initiate(h, p, a, o)
    \/ \E w \in 1 .. NumWorkers, b \in Bodies : CbLoad(w, b)
    \/ \E w \in 1 .. NumWorkers : CbSave(w)
    \/ \E w \in 1 .. NumWorkers : CbCheck(w)
    \/ \E w \in 1 .. NumWorkers : CbCreate(w)

SpecConc == Init /\ [][NextConc]_vars

\* -------------------------------------------- webhooks with other metadata
\* The handlers run one at a time as in Spec, on webhooks for the pushes made
\* whose metadata is not what the request asked for: a confirmed Amount that
\* is or is not the amount requested, a paying phone other than the one the
\* push went to, and metadata items on a webhook that reports a failure.
PhonePayer == <<"2", "5", "4", "7", "2", "2", "0", "0", "0", "0", "0", "0">>

MetaResults ==
    { [rc |-> RcInt(0), desc |-> "processed", amount |-> Unit, receipt |-> "NLJ7RT61SV",
       phone |-> PhonePayer, date |-> "20231209203045"],
      [rc |-> RcInt(0), desc |-> "processed", amount |-> 2 * Unit, receipt |-> "NLJ7RT61SV",
       phone |-> PhonePayer, date |-> "20231209203045"],
      [rc |-> RcInt(1), desc |-> "insufficient funds", amount |-> Unit, receipt |-> "NLJ7RT61SV",
       phone |-> PhonePayer, date |-> "20231209203045"],
      [rc |-> RcInt(CancelCode), desc |-> "cancelled by user", amount |-> 0, receipt |-> None,
       phone |-> NoPhone, date |-> None] }

MetaBodies ==
    { MkBody("ok", Mid(1), Cid(i), r.rc, r.desc, r.amount, r.receipt, r.phone, r.date) :
        i \in 1 .. MaxTx, r \in MetaResults }

\* Lines 1374-1387: the status query reads one transaction and writes nothing;
\* an id that no transaction has is answered with 404.
mpesa_payment_status(transaction_id) ==
    /\ last' = IF transaction_id \in 1 .. Len(txs)
                   THEN MkLast("mpesa_payment_status", transaction_id, NoBody,
                               txs[transaction_id].status, FALSE, "handled", "ok")
                   ELSE MkLast("mpesa_payment_status", 0, NoBody, None, FALSE,
                               "handled", "not_found")
    /\ UNCHANGED <<txs, payments, ncb, workers>>

NextMeta ==
    \/ \E h \in Handlers, p \in PhoneInputs, a \in AmountInputs :
          \E o \in OutcomesFor(h, p, a) : Initiate(h, p, a, o)
    \/ \E b \in MetaBodies : Callback(b)
    \/ \E id \in 1 .. MaxTx + 1 : mpesa_payment_status(id)

SpecMeta == Init /\ [][NextMeta]_vars

\* ------------------------------------------------------------------ SpecDates
\* The handlers on successful webhooks that differ in their TransactionDate:
\* a compact timestamp, one strptime rejects (month 13), one int() rejects,
\* one without its seconds, and none at all; and on a cancellation.
DateBodies ==
    { MkBody("ok", Mid(i), Cid(i), RcInt(0), "processed", Unit, "NLJ7RT61SV", Phone254, d) :
        i \in 1 .. MaxTx, d \in TransactionDates \cup {None} }
    \cup { MkBody("ok", Mid(i), Cid(i), RcInt(CancelCode), "cancelled by user", 0, None,
                  NoPhone, None) : i \in 1 .. MaxTx }

NextDates ==
    \/ \E h \in Handlers, p \in PhoneInputs, a \in AmountInputs :
          \E o \in OutcomesFor(h, p, a) : Initiate(h, p, a, o)
    \/ \E body \in DateBodies : Callback(body)

SpecDates == Init /\ [][NextDates]_vars

\* ------------------------------------ a webhook during the initiating request
\* The initiating handlers statement by statement: initiate_stk_push returns
\* once the gateway has answered (line 1051), and only then does the handler
\* store the identifiers of the answer (lines 1110-1113, 1203-1206).  The
\* gateway may deliver the webhook of a push from the moment it accepted it.
\* A worker inside a handler has that handler's name as its pc and holds the
\* transaction's id.
RacePhone == Phone0712
RaceAmount == [kind |-> "number", n |-> Unit]

\* Lines 1073-1108 and initiate_stk_push to its end; what follows an answer
\* other than an acceptance, or an exception, is done in the same step.
PushSent(w, h, outcome) ==
    /\ workers[w].pc = "idle"
    /\ Len(txs) < MaxTx
    /\ LET tid == Len(txs) + 1
           msisdn == _normalize_msisdn(RacePhone)
           r == initiate_stk_push(msisdn, RaceAmount.n, NewTransaction(RaceAmount.n, msisdn),
                                  tid, outcome)
       IN  IF PushOutcome(r) = "accepted"
               THEN /\ txs' = Append(txs, r.tx)
                    /\ workers' = [workers EXCEPT ![w] =
                           [IdleWorker EXCEPT !.pc = h, !.tid = tid, !.obj = r.tx]]
                    /\ UNCHANGED last
               ELSE /\ txs' = Append(txs, AfterPush(h, r))
                    /\ last' = MkLast(h, tid, NoBody, None, FALSE, PushOutcome(r),
                                      PushResponse(h, r))
                    /\ UNCHANGED workers
    /\ UNCHANGED <<payments, ncb>>

\* Lines 1110-1116, 1203-1217: save(update_fields=["merchant_request_id",
\* "checkout_request_id", "updated_at"]) writes the two identifiers only.
StoreIds(w) ==
    /\ workers[w].pc \in Handlers
    /\ LET tid == workers[w].tid
           data == StkResponse("accepted", tid)
       IN  /\ txs' = [txs EXCEPT ![tid].merchant_request_id = data.MerchantRequestID,
                                 ![tid].checkout_request_id = data.CheckoutRequestID]
           /\ last' = MkLast(workers[w].pc, tid, NoBody, None, FALSE, "accepted", "ok")
    /\ workers' = [workers EXCEPT ![w] = IdleWorker]
    /\ UNCHANGED <<payments, ncb>>

\* The pushes the gateway has accepted: those whose handler is about to store
\* the identifiers, and those that have them stored.
AcceptedPushes ==
    {workers[w].tid : w \in {v \in 1 .. NumWorkers : workers[v].pc \in Handlers}}
        \cup {i \in 1 .. Len(txs) : txs[i].checkout_request_id = Cid(i)}

\* The webhook reporting success of an accepted push.
SuccessBody(tid) ==
    MkBody("ok", Mid(tid), Cid(tid), RcInt(0), "processed", Unit, "NLJ7RT61SV",
           Phone254, "20231209203045")

NextRace ==
    \/ \E w \in 1 .. NumWorkers, h \in Handlers :
          \E o \in OutcomesFor(h, RacePhone, RaceAmount) : PushSent(w, h, o)
    \/ \E w \in 1 .. NumWorkers : StoreIds(w)
    \/ \E i \in AcceptedPushes : Callback(SuccessBody(i))

SpecRace == Init /\ [][NextRace]_vars

\* ------------------------------------------------- pushes of any amount
\* The initiating handlers alone, asked for every amount from nothing to
\* MaxAmount / Unit shillings, whole or not.
PushAmounts == {[kind |-> "number", n |-> k] : k \in 0 .. MaxAmount}

NextPush ==
    \E h \in Handlers, a \in PushAmounts :
        \E o \in OutcomesFor(h, Phone0712, a) : Initiate(h, Phone0712, a, o)

SpecPush == Init /\ [][NextPush]_vars

\* ------------------------------------------------------- the two balances
\* student_fee_detail and calculate_balance_after_payment as functions of the
\* FeeStructure and the Payment table.  The table is one that add_payment
\* calls have filled, for two students of one class; last holds the call made
\* last: the class's amount_required, the amount_paid argument and the result.
Students == {"s1", "s2"}

PaidInputs == [student : Students, amount_paid : 0 .. MaxPaid]

RECURSIVE LedgerOf(_, _)
LedgerOf(total_required, entries) ==
    IF entries = <<>> THEN <<>>
    ELSE LET n == Len(entries)
         IN  add_payment(total_required, LedgerOf(total_required, SubSeq(entries, 1, n - 1)),
                         entries[n].student, entries[n].amount_paid)

InitFees ==
    /\ txs = <<>>
    /\ ncb = 0
    /\ workers = [w \in 1 .. NumWorkers |-> IdleWorker]
    /\ \E r \in 0 .. MaxRequired, n \in 0 .. MaxPayments :
          \E entries \in [1 .. n -> PaidInputs] :
              /\ payments = LedgerOf(r, entries)
              /\ last = [op |-> "none", total_required |-> r, amount_paid |-> 0, out |-> 0]

FeeDetailCall ==
    /\ last' = [last EXCEPT !.op = "student_fee_detail", !.amount_paid = 0,
                            !.out = student_fee_detail(last.total_required, payments, "s1").balance]
    /\ UNCHANGED <<txs, payments, ncb, workers>>

BalanceAfterCall(amount_paid) ==
    /\ last' = [last EXCEPT !.op = "calculate_balance_after_payment",
                            !.amount_paid = amount_paid,
                            !.out = BalanceAfterPayment(last.total_required, payments, "s1",
                                                        amount_paid)]
    /\ UNCHANGED <<txs, payments, ncb, workers>>

NextFees ==
    \/ FeeDetailCall
    \/ \E a \in 1 .. MaxPaid : BalanceAfterCall(a)

SpecFees == InitFees /\ [][NextFees]_vars

\* ------------------------------------------- _normalize_msisdn as a function
\* The subscriber numbers of the docstring's 2547XXXXXXXX: a 7 and eight more
\* digits, and the four ways of writing one that the docstring accepts.
SubscriberDigits == {"0", "5", "7"}

Subscribers == {<<"7">> \o d : d \in [1 .. BareMinLen - 1 -> SubscriberDigits]}

Forms == {"trunk", "plus", "bare", "international"}

Written(form, subscriber) ==
    IF form = "trunk" THEN <<"0">> \o subscriber
    ELSE IF form = "plus" THEN <<"+">> \o CountryCode \o subscriber
    ELSE IF form = "bare" THEN subscriber
    ELSE CountryCode \o subscriber

\* last holds the call: the subscriber, the form it was written in, the
\* argument and (once called) the result.
InitMsisdn ==
    /\ txs = <<>>
    /\ payments = <<>>
    /\ ncb = 0
    /\ workers = [w \in 1 .. NumWorkers |-> IdleWorker]
    /\ \E f \in Forms, sub \in Subscribers :
          last = [op |-> "none", subscriber |-> sub, form |-> f,
                  phone_number |-> Written(f, sub), out |-> NoPhone]

NormalizeCall ==
    /\ last.op = "none"
    /\ last' = [last EXCEPT !.op = "_normalize_msisdn",
                            !.out = _normalize_msisdn(last.phone_number)]
    /\ UNCHANGED <<txs, payments, ncb, workers>>

NextMsisdn == NormalizeCall

SpecMsisdn == InitMsisdn /\ [][NextMsisdn]_vars

\* ------------------------------------------ _normalize_msisdn on any input
\* What a user may type as phone_number: signs and spaces, then up to MaxCore
\* of the digits the branches look at, then up to MaxFill further digits,
\* then perhaps a space.  last holds the argument, the result of the handler's
\* call (lines 1088, 1183) and the result of the call initiate_stk_push makes
\* on that result (line 1003).
SeqsUpTo(S, n) == UNION {[1 .. k -> S] : k \in 0 .. n}

Leads == SeqsUpTo({"+", " "}, 2)

Cores == SeqsUpTo({"0", "7", "2", "5", "4"}, MaxCore)

Fills == {[i \in 1 .. k |-> "1"] : k \in 0 .. MaxFill}

Trails == {<<>>, <<" ">>}

TypedPhones == {l \o c \o f \o t : l \in Leads, c \in Cores, f \in Fills, t \in Trails}

InitPhones ==
    /\ txs = <<>>
    /\ payments = <<>>
    /\ ncb = 0
    /\ workers = [w \in 1 .. NumWorkers |-> IdleWorker]
    /\ \E ph \in TypedPhones :
          last = [op |-> "none", phone_number |-> ph, out |-> NoPhone, again |-> NoPhone]

\* msisdn = _normalize_msisdn(phone_number) in the handler
NormalizeTyped ==
    /\ last.op = "none"
    /\ last' = [last EXCEPT !.op = "_normalize_msisdn",
                            !.out = _normalize_msisdn(last.phone_number)]
    /\ UNCHANGED <<txs, payments, ncb, workers>>

\* msisdn = _normalize_msisdn(phone_number) in initiate_stk_push, which the
\* handler calls with phone_number=msisdn unless msisdn is empty
NormalizeStored ==
    /\ last.op = "_normalize_msisdn"
    /\ last.out # NoPhone
    /\ last' = [last EXCEPT !.op = "initiate_stk_push",
                            !.again = _normalize_msisdn(last.out)]
    /\ UNCHANGED <<txs, payments, ncb, workers>>

NextPhones ==
    \/ NormalizeTyped
    \/ NormalizeStored

SpecPhones == InitPhones /\ [][NextPhones]_vars

\* ------------------------------------------------------------------ claims
PaymentCount(P, tid) == Cardinality({i \in 1 .. Len(P) : P[i].mpesa_transaction = tid})

Terminal == {"Completed", "Failed", "Cancelled"}
NonTerminal == {"Pending", "Submitted"}

\* The step is one delivery to mpesa_callback, handled to its end.
CallbackStep == last'.op = "mpesa_callback" /\ ncb' = ncb + 1 /\ last'.outcome = "handled"

\* two records that differ at most in callback_data
SameButPayload(t, u) == [t EXCEPT !.callback_data = NoData] = [u EXCEPT !.callback_data = NoData]

\* The step re-delivers the successful webhook that the request before it
\* delivered to the same transaction.
SecondDelivery ==
    /\ last.op = "mpesa_callback" /\ last.outcome = "handled"
    /\ last.tid # 0 /\ IsSuccess(last.rc)
    /\ CallbackStep
    /\ last'.tid = last.tid /\ last'.dup /\ IsSuccess(last'.rc)

\* C1: when the same successful callback is delivered twice in a row to a
\* transaction whose CheckoutRequestID is stored, then after the second
\* delivery exactly one Payment is linked to the transaction, the transaction
\* is Completed, the Payment table is as the first delivery left it, and no
\* field of any transaction other than callback_data has changed.
C1_SameCallbackTwice ==
    [][SecondDelivery =>
        /\ PaymentCount(payments', last.tid) = 1
        /\ txs'[last.tid].status = "Completed"
        /\ payments' = payments
        /\ Len(txs') = Len(txs)
        /\ \A i \in 1 .. Len(txs) : SameButPayload(txs'[i], txs[i])]_vars

C1_Witness ==
    /\ last.op = "mpesa_callback" /\ last.outcome = "handled"
    /\ last.tid # 0 /\ last.dup /\ IsSuccess(last.rc) /\ last.pre = "Completed"
    /\ PaymentCount(payments, last.tid) = 1

\* C2: once a transaction is Completed, Failed or Cancelled, no step changes
\* its status.
C2_TerminalStatusKept ==
    [][\A i \in 1 .. Len(txs) :
          txs[i].status \in Terminal => txs'[i].status = txs[i].status]_vars

\* C3: however the statements of concurrent webhook requests interleave, no
\* transaction ever has more than one Payment linked to it.
C3_AtMostOnePaymentConcurrently ==
    \A i \in 1 .. Len(txs) : PaymentCount(payments, i) <= 1

\* C4: every transaction has at most one Payment linked to it, and every
\* Payment linked to a transaction is linked to a Completed one.
C4_OneSettlementOnlyForCompleted ==
    /\ \A i \in 1 .. Len(txs) : PaymentCount(payments, i) <= 1
    /\ \A k \in 1 .. Len(payments) :
          payments[k].mpesa_transaction # 0 =>
              /\ payments[k].mpesa_transaction \in 1 .. Len(txs)
              /\ txs[payments[k].mpesa_transaction].status = "Completed"

\* a settled transaction that a later callback with a failure code was matched to
C4_Witness ==
    /\ last.op = "mpesa_callback" /\ last.tid # 0 /\ last.pre = "Completed"
    /\ ~IsSuccess(last.rc)
    /\ PaymentCount(payments, last.tid) = 1

\* C5: when a successful callback is delivered again to the transaction that
\* already stores it (so also after a delivery that saved Completed and died
\* before creating the Payment) and is handled to its end, a Payment is linked
\* to that transaction: Completed without a settlement does not last.
C5_RedeliveryCreatesMissingPayment ==
    (/\ last.op = "mpesa_callback" /\ last.outcome = "handled"
     /\ last.tid # 0 /\ IsSuccess(last.rc) /\ last.dup)
        => PaymentExists(payments, last.tid)

\* C6: every delivery to mpesa_callback is answered with the success
\* acknowledgment, whatever the body.
C6_AlwaysAcknowledged == last.op = "mpesa_callback" => last.resp = "ack"

\* C7: a callback matched to a non-terminal transaction with ResultCode 1032
\* leaves it Cancelled, one with any other non-zero integer ResultCode leaves
\* it Failed, and neither changes the Payment table.
C7_FailureMapping ==
    [][(/\ CallbackStep
        /\ last'.tid # 0 /\ last'.pre \in NonTerminal
        /\ last'.rc.present /\ last'.rc.isInt /\ last'.rc.n # 0)
       => /\ txs'[last'.tid].status =
                (IF last'.rc.n = CancelCode THEN "Cancelled" ELSE "Failed")
          /\ payments' = payments
          /\ PaymentCount(payments', last'.tid) = 0]_vars

C7_Witness ==
    /\ last.op = "mpesa_callback" /\ last.outcome = "handled"
    /\ last.tid # 0 /\ last.pre = "Pending"
    /\ last.rc = RcInt(CancelCode)
    /\ txs[last.tid].status = "Cancelled"
    /\ payments = <<>>

\* C8: a well-formed callback whose CheckoutRequestID is stored on no
\* transaction is acknowledged and changes no transaction and no Payment.
C8_UnmatchedNoEffect ==
    [][(CallbackStep /\ last'.shape = "ok" /\ last'.corr = "unknown_id")
       => /\ last'.resp = "ack"
          /\ last'.tid = 0
          /\ txs' = txs
          /\ payments' = payments]_vars

C8_Witness ==
    /\ last.op = "mpesa_callback" /\ last.outcome = "handled"
    /\ last.shape = "ok" /\ last.corr = "unknown_id"
    /\ last.resp = "ack"
    /\ \E i \in 1 .. Len(txs) : txs[i].checkout_request_id # None

\* C9: a callback whose body is no JSON is acknowledged and changes no
\* transaction and no Payment.
C9_UnparsableNoEffect ==
    [][(CallbackStep /\ last'.shape = "invalid_json")
       => /\ last'.resp = "ack"
          /\ txs' = txs
          /\ payments' = payments]_vars

C9_Witness ==
    /\ last.op = "mpesa_callback" /\ last.shape = "invalid_json" /\ last.resp = "ack"
    /\ \E i \in 1 .. Len(txs) : txs[i].checkout_request_id # None

\* C10: after either initiating handler had its push accepted, the transaction
\* it created is Submitted and holds the MerchantRequestID and
\* CheckoutRequestID the gateway returned.
C10_AcceptedIsSubmitted ==
    (last.op \in Handlers /\ last.outcome = "accepted") =>
        /\ txs[last.tid].status = "Submitted"
        /\ txs[last.tid].merchant_request_id = Mid(last.tid)
        /\ txs[last.tid].checkout_request_id = Cid(last.tid)

\* The status changes the payment life cycle allows.
AllowedEdges ==
    { <<"Pending", "Submitted">>, <<"Pending", "Failed">>, <<"Pending", "Completed">>,
      <<"Submitted", "Completed">>, <<"Submitted", "Failed">>, <<"Submitted", "Cancelled">> }

\* C11: every change of a transaction's status made by a step is an allowed
\* edge, and a transaction a step creates ends that step Pending, Submitted or
\* Failed (created Pending, then at most one allowed edge).
C11_OnlyAllowedEdges ==
    [][/\ \A i \in 1 .. Len(txs) :
             txs'[i].status # txs[i].status =>
                 <<txs[i].status, txs'[i].status>> \in AllowedEdges
       /\ \A i \in Len(txs) + 1 .. Len(txs') :
             txs'[i].status \in {"Pending", "Submitted", "Failed"}]_vars

\* C12: after either initiating handler had its push answered with a
\* ResponseCode other than "0", the transaction it created is Failed, holds the
\* gateway's ResponseCode and ResponseDescription as result_code and
\* result_description, holds neither identifier of the response, and the
\* caller was told of the failure.
C12_RejectedIsFailed ==
    (last.op \in Handlers /\ last.outcome = "rejected") =>
        /\ txs[last.tid].status = "Failed"
        /\ txs[last.tid].result_code = StkResponse("rejected", last.tid).ResponseCode
        /\ txs[last.tid].result_description = StkResponse("rejected", last.tid).ResponseDescription
        /\ txs[last.tid].merchant_request_id = None
        /\ txs[last.tid].checkout_request_id = None
        /\ last.resp = "fail"

\* both handlers had a push rejected, the JSON endpoint last
C12_Witness ==
    /\ Len(txs) = 2
    /\ txs[1].status = "Failed" /\ txs[1].result_code = "1"
    /\ last.op = "mpesa_stkpush" /\ last.outcome = "rejected" /\ last.tid = 2
    /\ txs[2].status = "Failed" /\ last.resp = "fail"

\* C13: after either initiating handler had its push end in a failed token
\* request or a failed POST, the transaction it created is Failed and its
\* result_description holds the cause; it is not left Pending.
C13_GatewayFailureIsFailed ==
    (last.op \in Handlers /\ last.outcome \in {"token_error", "transport_error"}) =>
        /\ txs[last.tid].status = "Failed"
        /\ txs[last.tid].result_description # None

\* C14: a request refused for validation (by the handler's own tests, or by
\* initiate_stk_push before it sends anything: an amount whose integer part is
\* below 1) has created no transaction.
C14_RefusedCreatesNothing ==
    (last.op \in Handlers /\ last.outcome \in {"invalid", "refused"}) => last.tid = 0

\* C15: for every required amount, Payment table and incoming amount, the
\* balance student_fee_detail shows is required minus the settled total
\* (negative when the payments exceed the required amount), the balance
\* calculate_balance_after_payment returns is required minus (settled total
\* plus incoming amount) if that is positive and zero otherwise, so never
\* negative, and it differs from the unclamped difference whenever settled
\* total plus incoming amount exceed the required amount.
C15_TwoBalanceFormulas ==
    LET required == last.total_required
        settled == SumPaid(payments, "s1")
        due == required - (settled + last.amount_paid)
    IN  /\ last.op = "student_fee_detail" =>
              /\ last.out = required - settled
              /\ (settled > required => last.out < 0)
        /\ last.op = "calculate_balance_after_payment" =>
              /\ last.out = (IF due > 0 THEN due ELSE 0)
              /\ last.out >= 0
              /\ (settled + last.amount_paid > required => last.out # due)

\* an overpaid account: the page shows a negative balance, the stamp is zero
C15_Witness ==
    /\ last.op = "calculate_balance_after_payment"
    /\ last.out = 0
    /\ student_fee_detail(last.total_required, payments, "s1").balance < 0
    /\ \E k \in 1 .. Len(payments) : payments[k].student = "s2"

\* C16: for every subscriber number of nine digits starting with 7, written
\* with the trunk prefix 0, with +254, bare or with 254, _normalize_msisdn
\* returns 254 followed by the subscriber number: one canonical string for
\* all four forms.
C16_OneCanonicalForm ==
    last.op = "_normalize_msisdn" =>
        /\ last.out = <<"2", "5", "4">> \o last.subscriber
        /\ \A f \in Forms : _normalize_msisdn(Written(f, last.subscriber)) = last.out

\* the plus-prefixed form of a subscriber number was normalised
C16_Witness ==
    /\ last.op = "_normalize_msisdn"
    /\ last.form = "plus"
    /\ Head(last.phone_number) = "+"
    /\ Len(last.out) = 12 /\ SubSeq(last.out, 1, 4) = <<"2", "5", "4", "7">>

\* C17: the Amount of every push payload stored on a transaction is the
\* integer part of the amount requested (the greatest integer not above it,
\* 1.5 giving 1) and is at least 1; a request reaches the gateway only if the
\* amount asked is at least one shilling, and is refused before if it is less.
C17_PayloadAmountTruncated ==
    /\ \A i \in 1 .. Len(txs) :
          txs[i].callback_data.kind = "stkpush" =>
              LET Amount == txs[i].callback_data.amount_int
              IN  /\ Amount >= 1
                  /\ Amount * Unit <= txs[i].amount
                  /\ txs[i].amount < (Amount + 1) * Unit
    /\ (last.op \in Handlers /\ last.outcome \in GatewayOutcomes) =>
          txs[last.tid].amount >= Unit
    /\ (last.op \in Handlers /\ last.outcome = "refused") =>
          txs[last.tid].amount < Unit

\* a push for an amount whose fraction is a half or more, which rounding
\* would have taken to the next integer
C17_Witness ==
    \E i \in 1 .. Len(txs) :
        /\ txs[i].callback_data.kind = "stkpush"
        /\ 2 * (txs[i].amount % Unit) >= Unit
        /\ txs[i].callback_data.amount_int * Unit < txs[i].amount
        /\ txs[i].callback_data.amount_int >= 1

\* C18: the Payment a callback creates credits the Amount of that callback's
\* metadata, whatever amount the transaction was requested for.
C18_ConfirmedAmountCredited ==
    [][(CallbackStep /\ Len(payments') = Len(payments) + 1) =>
          LET p == payments'[Len(payments')]
              confirmed == txs'[p.mpesa_transaction].callback_data.body.amount
          IN  confirmed # 0 => p.amount_paid = confirmed]_vars

\* C19: after either initiating handler made a push attempt that reached the
\* gateway (accepted, rejected, token request failed, POST failed or answered
\* with no JSON), the callback_data of the transaction it created holds that
\* attempt's request and response or, failing that, the transaction holds
\* the error's text.
C19_AttemptAlwaysRecorded ==
    (last.op \in Handlers /\ last.outcome \in GatewayOutcomes) =>
        \/ txs[last.tid].callback_data.kind = "stkpush"
        \/ txs[last.tid].result_description # None

\* C20: after every step, a transaction with a receipt number or a
\* transaction date is Completed; and a callback with a ResultCode other than
\* 0 leaves receipt number, phone number and transaction date of the
\* transaction it is matched to as they were, whatever metadata it carries.
C20_ReceiptOnlyIfCompleted ==
    [][/\ \A i \in 1 .. Len(txs') :
             (txs'[i].mpesa_receipt_number # None \/ txs'[i].transaction_date # None)
                 => txs'[i].status = "Completed"
       /\ (CallbackStep /\ last'.tid # 0 /\ ~IsSuccess(last'.rc)) =>
             /\ txs'[last'.tid].mpesa_receipt_number = txs[last'.tid].mpesa_receipt_number
             /\ txs'[last'.tid].phone_number = txs[last'.tid].phone_number
             /\ txs'[last'.tid].transaction_date = txs[last'.tid].transaction_date]_vars

\* a failure callback carrying receipt, phone and date was matched to a
\* transaction that is not Completed, and left them unset
C20_Witness ==
    /\ last.op = "mpesa_callback" /\ last.outcome = "handled" /\ last.tid # 0
    /\ ~IsSuccess(last.rc) /\ last.pre = "Pending"
    /\ txs[last.tid].callback_data.body.receipt # None
    /\ txs[last.tid].callback_data.body.phone = PhonePayer
    /\ txs[last.tid].status = "Failed"
    /\ txs[last.tid].mpesa_receipt_number = None
    /\ txs[last.tid].transaction_date = None
    /\ txs[last.tid].phone_number # PhonePayer

\* C21: a step changes the Payment table only if it is a callback that takes
\* the transaction it is matched to from another status to Completed, and
\* then by adding one Payment of that transaction's student; every other step
\* (an initiation, accepted or rejected or failed, a failed or cancelled or
\* unmatched callback, a callback to a Completed transaction, a status query)
\* leaves the table, and so the balance the fee page derives, as it was.
C21_PaymentsChangeOnlyOnCompletion ==
    [][/\ payments' # payments =>
             /\ CallbackStep /\ last'.tid # 0 /\ IsSuccess(last'.rc)
             /\ txs[last'.tid].status # "Completed"
             /\ txs'[last'.tid].status = "Completed"
             /\ Len(payments') = Len(payments) + 1
             /\ SubSeq(payments', 1, Len(payments)) = payments
             /\ payments'[Len(payments')].student = txs[last'.tid].student
             /\ payments'[Len(payments')].mpesa_transaction = last'.tid
       /\ (\/ last'.op \in Handlers \cup {"mpesa_payment_status"}
           \/ (CallbackStep /\ (last'.tid = 0 \/ ~IsSuccess(last'.rc)))) =>
             /\ payments' = payments
             /\ student_fee_detail(FeeRequired, payments', "s1").balance
                    = student_fee_detail(FeeRequired, payments, "s1").balance]_vars

\* a status query on a transaction that is not Completed, asked while the
\* account already holds a Payment of another transaction
C21_Witness ==
    /\ last.op = "mpesa_payment_status" /\ last.tid # 0
    /\ txs[last.tid].status \in {"Pending", "Failed", "Cancelled"}
    /\ Len(payments) = 1
    /\ payments[1].mpesa_transaction # last.tid

\* C22: a callback matched to a transaction that is Completed changes nothing
\* of it but callback_data (status, result_code, result_description, receipt
\* number, phone number and transaction date stay), changes no other
\* transaction and leaves the Payment table as it was.
C22_CompletedOnlyPayloadChanges ==
    [][(CallbackStep /\ last'.tid # 0 /\ last'.pre = "Completed") =>
          /\ Len(txs') = Len(txs)
          /\ \A i \in 1 .. Len(txs) : SameButPayload(txs'[i], txs[i])
          /\ payments' = payments]_vars

\* C23: a successful callback for a push the gateway has accepted, delivered
\* at any moment from the acceptance on (also before the handler has stored
\* the CheckoutRequestID), is matched to the transaction of that push, which
\* is then Completed with exactly one Payment.
C23_EarlyCallbackApplied ==
    (last.op = "mpesa_callback" /\ last.outcome = "handled" /\ IsSuccess(last.rc)) =>
        /\ last.tid # 0
        /\ txs[last.tid].status = "Completed"
        /\ PaymentCount(payments, last.tid) = 1

\* C24: whenever no webhook request is in progress, every transaction that a
\* Payment is linked to is Completed, however the reads and saves of the
\* requests handled at once were interleaved: a save by a request that reports
\* a failure does not replace Completed.
C24_PaidStaysCompleted ==
    (\A w \in 1 .. NumWorkers : workers[w].pc = "idle") =>
        \A k \in 1 .. Len(payments) :
            txs[payments[k].mpesa_transaction].status = "Completed"


Blank(s) == \A i \in 1 .. Len(s) : s[i] = " "

\* C25: for an input that is empty or all spaces _normalize_msisdn returns the
\* empty string, which callers take as an invalid phone; for every other input
\* it returns a string of digits only that starts with 254 (so with neither
\* "+" nor "0").
C25_CanonicalOrEmpty ==
    last.op = "_normalize_msisdn" =>
        IF Blank(last.phone_number)
            THEN last.out = NoPhone
            ELSE /\ StartsWith(last.out, <<"2", "5", "4">>)
                 /\ \A i \in 1 .. Len(last.out) : IsDigit(last.out[i])

\* C26: normalising the result of _normalize_msisdn again gives the same
\* string, so the call inside initiate_stk_push leaves the number the handler
\* stored on the transaction as it is.
C26_NormalizeIdempotent ==
    last.op = "initiate_stk_push" => last.again = last.out

\* a typed number that the first call changed and the second left alone
C26_Witness ==
    /\ last.op = "initiate_stk_push"
    /\ last.phone_number # last.out
    /\ Head(last.phone_number) = "0"
    /\ Len(last.out) = IntlMinLen
    /\ last.again = last.out

\* a compact timestamp YYYYMMDDHHMMSS: 14 digits with a month, a day, an hour,
\* a minute and a second in range
CompactTimestamp(raw) ==
    /\ raw # None
    /\ Len(raw) = 14
    /\ \A i \in 1 .. 14 : IsDigit(SubSeq(raw, i, i))
    /\ SubSeq(raw, 5, 6) \in {"01", "02", "03", "04", "05", "06", "07", "08", "09", "10", "11", "12"}
    /\ SubSeq(raw, 7, 7) \in {"0", "1", "2", "3"} /\ SubSeq(raw, 7, 8) \notin {"00", "32", "33", "34", "35", "36", "37", "38", "39"}
    /\ SubSeq(raw, 9, 9) \in {"0", "1", "2"} /\ SubSeq(raw, 9, 10) \notin {"24", "25", "26", "27", "28", "29"}
    /\ SubSeq(raw, 11, 11) \in {"0", "1", "2", "3", "4", "5"}
    /\ SubSeq(raw, 13, 13) \in {"0", "1", "2", "3", "4", "5"}

\* C27: a successful callback matched to a transaction that is not Completed
\* sets the transaction's transaction_date to the TransactionDate of its
\* metadata if that is a compact timestamp and leaves it as it was otherwise;
\* the Payment it creates is dated with the year, month and day of that
\* timestamp, and with the current date if TransactionDate is absent or no
\* compact timestamp.
C27_SettlementDate ==
    [][(CallbackStep /\ last'.tid # 0 /\ IsSuccess(last'.rc) /\ last'.pre # "Completed") =>
          LET tid == last'.tid
              raw == txs'[tid].callback_data.body.date
          IN  /\ txs'[tid].transaction_date =
                     (IF CompactTimestamp(raw) THEN raw ELSE txs[tid].transaction_date)
              /\ Len(payments') = Len(payments) + 1
              /\ payments'[Len(payments')].mpesa_transaction = tid
              /\ payments'[Len(payments')].date =
                     (IF CompactTimestamp(raw) THEN SubSeq(raw, 1, 8) ELSE "today")]_vars

\* the transaction a query by CheckoutRequestID alone gives (0: none)
ByCheckoutAlone(T, c) ==
    IF c = None THEN 0
    ELSE First({i \in 1 .. Len(T) : T[i].checkout_request_id = c})

\* a well-formed webhook with the two identifiers m and c
IdBody(m, c) == MkBody("ok", m, c, RcInt(0), "processed", 0, None, NoPhone, None)

\* C28: for every pair of identifiers a webhook can carry (each absent, that
\* of a stored transaction, or one never given out), the transaction
\* mpesa_callback finds is the one a query by CheckoutRequestID alone finds:
\* the second query adds nothing, and without a CheckoutRequestID nothing is
\* found whatever the MerchantRequestID.  So the callback handled last was
\* matched exactly if its CheckoutRequestID is stored, to a transaction with
\* that CheckoutRequestID.
C28_LookupByCheckoutAlone ==
    /\ \A m \in {None} \cup {Mid(i) : i \in 1 .. MaxTx + 1}, c \in CheckoutIdsIn :
          /\ Lookup(txs, IdBody(m, c)) = ByCheckoutAlone(txs, c)
          /\ c = None => Lookup(txs, IdBody(m, c)) = 0
    /\ (last.op = "mpesa_callback" /\ last.outcome = "handled" /\ last.shape = "ok") =>
          /\ last.corr \in {"no_id", "unknown_id"} => last.tid = 0
          /\ last.corr = "stored_id" =>
                /\ last.tid # 0
                /\ txs[last.tid].checkout_request_id = txs[last.tid].callback_data.body.cid

\* a webhook without CheckoutRequestID whose MerchantRequestID is that of a
\* stored transaction has been handled and matched nothing
C28_Witness ==
    /\ last.op = "mpesa_callback" /\ last.outcome = "handled" /\ last.shape = "ok"
    /\ last.corr = "no_id" /\ last.tid = 0
    /\ \E i \in 1 .. Len(txs) : txs[i].merchant_request_id \in MerchantIdsIn

\* C29: a callback matched to a Pending or Submitted transaction whose
\* ResultCode is absent or is a value int() rejects makes the transaction
\* Failed (not Cancelled, not Completed), leaves every other transaction and
\* the Payment table as they were, and is answered with the acknowledgment.
C29_UnreadableCodeIsFailure ==
    [][(/\ CallbackStep
        /\ last'.tid # 0
        /\ last'.pre \in NonTerminal
        /\ (~last'.rc.present \/ ~last'.rc.isInt)) =>
          /\ txs'[last'.tid].status = "Failed"
          /\ Len(txs') = Len(txs)
          /\ \A i \in 1 .. Len(txs) : i # last'.tid => txs'[i] = txs[i]
          /\ payments' = payments
          /\ last'.resp = "ack"]_vars

\* a webhook without ResultCode has been handled for a transaction that was
\* Pending: it is Failed and has no Payment
C29_Witness ==
    /\ last.op = "mpesa_callback" /\ last.outcome = "handled" /\ last.tid # 0
    /\ last.pre = "Pending"
    /\ ~last.rc.present
    /\ txs[last.tid].status = "Failed"
    /\ txs[last.tid].result_code = None
    /\ PaymentCount(payments, last.tid) = 0
    /\ last.resp = "ack"

\* the two correlation identifiers of a transaction
Ids(t) == <<t.merchant_request_id, t.checkout_request_id>>

\* C30: a step changes the MerchantRequestID or CheckoutRequestID of a stored
\* transaction only if they were both null and the step is the initiating
\* handler of that transaction, told by the gateway that the push is accepted;
\* a transaction is created by an initiating handler only, with both
\* identifiers if the gateway accepted its push and with both null if it
\* rejected it or the push failed; a callback, matched or not, successful or
\* not, creates no transaction and leaves every identifier as it was.
C30_IdsWrittenOnceByInitiation ==
    [][/\ \A i \in 1 .. Len(txs) :
             Ids(txs'[i]) # Ids(txs[i]) =>
                 /\ Ids(txs[i]) = <<None, None>>
                 /\ last'.op \in Handlers /\ last'.outcome = "accepted" /\ last'.tid = i
       /\ Len(txs') # Len(txs) =>
             /\ Len(txs') = Len(txs) + 1
             /\ last'.op \in Handlers /\ last'.tid = Len(txs')
             /\ Ids(txs'[Len(txs')]) =
                    (IF last'.outcome = "accepted"
                        THEN <<Mid(Len(txs')), Cid(Len(txs'))>>
                        ELSE <<None, None>>)
       /\ last'.op = "mpesa_callback" /\ ncb' = ncb + 1 =>
             /\ Len(txs') = Len(txs)
             /\ \A i \in 1 .. Len(txs) : Ids(txs'[i]) = Ids(txs[i])]_vars

\* a callback has been matched to an accepted transaction, whose identifiers
\* are those the gateway gave, while a rejected transaction has none
C30_Witness ==
    /\ last.op = "mpesa_callback" /\ last.outcome = "handled" /\ last.tid # 0
    /\ Ids(txs[last.tid]) = <<Mid(last.tid), Cid(last.tid)>>
    /\ \E i \in 1 .. Len(txs) :
          /\ txs[i].status = "Failed"
          /\ txs[i].result_code = "1"
          /\ Ids(txs[i]) = <<None, None>>

====
